---- MODULE Spec2Model ----
(***************************************************************************)
(* Model of pymovements.events.detection._idt: the dispersion metric and   *)
(* the I-DT fixation detection routine idt(), as a state machine whose     *)
(* steps are the input validation and the phases of the scan loop.         *)
(*                                                                         *)
(* Representation of numbers:                                              *)
(*   - a float coordinate or dispersion is <<v>> for the number v and <<>> *)
(*     for np.nan; every comparison with <<>> is false, as for NaN;        *)
(*   - a supplied timestep is given in half units (3 stands for 1.5), so   *)
(*     that astype(int) and the fractional-part test do real work;         *)
(*   - indices are 0-based as in the code; a TLA+ sequence s holds the     *)
(*     Python element s[i] at s[i + 1].                                    *)
(***************************************************************************)
EXTENDS Integers, Sequences, FiniteSets, TLC

VARIABLES
    positions,            \* argument: sequence of rows, each a sequence of floats
    tsArg,                \* argument timesteps: [given |-> BOOLEAN, vals |-> half units]
    minimum_duration,     \* argument: [isint |-> BOOLEAN, v |-> Int]
    dispersion_threshold, \* argument: Int
    include_nan,          \* argument: BOOLEAN
    timesteps,            \* local: the integer timesteps after line 119
    minimum_sample_duration, \* local, line 147
    win_start,            \* local, 0-based
    win_end,              \* local, 0-based, exclusive
    onsets,               \* local accumulator (timestamps)
    offsets,              \* local accumulator (timestamps)
    pc,                   \* position in idt()
    error,                \* kind of the exception raised, "none" if none
    errmsg,               \* which check raised it
    windows,              \* history: one record per consumed window (see Consume)
    iters                 \* history: number of times the body of the while loop was entered

vars == <<positions, tsArg, minimum_duration, dispersion_threshold, include_nan,
          timesteps, minimum_sample_duration, win_start, win_end, onsets, offsets,
          pc, error, errmsg, windows, iters>>

args == <<positions, tsArg, minimum_duration, dispersion_threshold, include_nan>>

-----------------------------------------------------------------------------
\* Bounds of the checked input space.

MaxN == 4
MaxNanN == 5
MaxFairN == 3
MaxColN == 5

-----------------------------------------------------------------------------
\* Floats.

NaN == <<>>
Num(v) == <<v>>
IsNaN(c) == c = NaN
Val(c) == c[1]

SetMax(S) == CHOOSE x \in S : \A y \in S : y <= x
SetMin(S) == CHOOSE x \in S : \A y \in S : x <= y
Max2(a, b) == IF a >= b THEN a ELSE b
Min2(a, b) == IF a <= b THEN a ELSE b

\* positions[a:b], a Python slice with 0 <= a <= b <= len
Slice(s, a, b) == SubSeq(s, a + 1, b)

\* np.nanmax(block, axis=0)[col] - np.nanmin(block, axis=0)[col]:
\* NaN entries are ignored; an all-NaN column gives NaN.
ColumnExtent(block, col) ==
    LET present == {Val(block[i][col]) : i \in {j \in 1..Len(block) : ~IsNaN(block[j][col])}}
    IN  IF present = {} THEN NaN ELSE Num(SetMax(present) - SetMin(present))

\* float addition: NaN propagates
FAdd(a, b) == IF IsNaN(a) \/ IsNaN(b) THEN NaN ELSE Num(Val(a) + Val(b))

\* sum(np.nanmax(positions, axis=0) - np.nanmin(positions, axis=0))
dispersion(block) == FAdd(ColumnExtent(block, 1), ColumnExtent(block, 2))

\* a faulty variant: a NaN dispersion passes the test
FLe_NaNPasses(a, t) == IsNaN(a) \/ Val(a) <= t

\* float comparison with an integer threshold: false for NaN
FLe(a, t) == ~IsNaN(a) /\ Val(a) <= t
FLt(a, t) == ~IsNaN(a) /\ Val(a) < t

\* np.isnan(row).any()
RowHasNaN(row) == \E c \in 1..Len(row) : IsNaN(row[c])

\* np.sum(np.isnan(positions[a:b])) > 0
AnyNaN(pos, a, b) == \E i \in (a + 1)..b : RowHasNaN(pos[i])

-----------------------------------------------------------------------------
\* Integer arithmetic of the validation.

\* astype(int) of a value given in half units: truncation toward zero
AsInt(h) == IF h >= 0 THEN h \div 2 ELSE -((-h) \div 2)

\* (timesteps - timesteps_int) != 0 for one value
HasFraction(h) == h - 2 * AsInt(h) # 0

\* a % b and a // b; numpy gives 0 for a zero divisor
PyMod(a, b) ==
    IF b = 0 THEN 0
    ELSE IF b > 0 THEN a % b
    ELSE -((-a) % (-b))

PyFloorDiv(a, b) ==
    IF b = 0 THEN 0
    ELSE IF b > 0 THEN a \div b
    ELSE (-a) \div (-b)

\* np.diff(timesteps)
Diff(ts) == [i \in 1..(Len(ts) - 1) |-> ts[i + 1] - ts[i]]

\* timesteps after lines 111-119, before the integrality check rejects them
RawTimesteps(pos, ta) ==
    IF ta.given THEN ta.vals ELSE [i \in 1..Len(pos) |-> 2 * (i - 1)]

IntTimesteps(pos, ta) ==
    LET raw == RawTimesteps(pos, ta) IN [i \in 1..Len(raw) |-> AsInt(raw[i])]

-----------------------------------------------------------------------------
\* Input validation, lines 107-148.

\* _checks.check_shapes(positions=positions): shape must be (N, 2)
check_shapes(pos) == \A i \in 1..Len(pos) : Len(pos[i]) = 2

\* _checks.check_is_length_matching(positions=positions, timesteps=timesteps)
check_is_length_matching(pos, ts) == Len(pos) = Len(ts)

\* line 117: np.any((timesteps - timesteps_int) != 0)
AnyFraction(raw) == \E i \in 1..Len(raw) : HasFraction(raw[i])

\* a faulty variant: only the last interval is compared with the first
ConstantInterval_Ends(d) == d[Len(d)] = d[1]

\* line 141: np.all(timesteps_diff == timesteps_diff[0])
ConstantInterval(d) == \A i \in 1..Len(d) : d[i] = d[1]

\* a faulty variant: the operands of % swapped
Divisible_Swapped(md, d) == PyMod(d[1], md) = 0

\* line 143: minimum_duration % timesteps_diff[0] == 0
Divisible(md, d) == PyMod(md, d[1]) = 0

\* line 147: int(minimum_duration // timesteps_diff[0])
SampleDuration(md, d) == PyFloorDiv(md, d[1])

Raise(kind, msg) == [kind |-> kind, msg |-> msg]
NoError == Raise("none", "")

\* The first check of lines 109-148 that fails, in the order of the code.
ValidationFailure(pos, ta, md, thr) ==
    LET raw == RawTimesteps(pos, ta)
        ts == IntTimesteps(pos, ta)
        d == Diff(ts)
    IN  IF ~check_shapes(pos) THEN Raise("ShapeError", "shape")
        ELSE IF AnyFraction(raw) THEN Raise("TypeError", "timesteps must be of type int")
        ELSE IF ~check_is_length_matching(pos, ts)
            THEN Raise("LengthMismatchError", "length")
        ELSE IF thr <= 0
            THEN Raise("ValueError", "dispersion_threshold must be greater than 0")
        ELSE IF md.v <= 0
            THEN Raise("ValueError", "minimum_duration must be greater than 0")
        ELSE IF ~md.isint
            THEN Raise("TypeError", "minimum_duration must be of type int")
        ELSE IF Len(d) = 0
            THEN Raise("IndexError", "timesteps_diff[0]")
        ELSE IF ~ConstantInterval(d)
            THEN Raise("ValueError", "interval between timesteps must be constant")
        ELSE IF ~Divisible(md.v, d)
            THEN Raise("ValueError", "minimum_duration must be divisible")
        ELSE IF SampleDuration(md.v, d) < 2
            THEN Raise("ValueError", "minimum_duration must be longer than 2 samples")
        ELSE NoError

-----------------------------------------------------------------------------
\* Candidates of a consumed window, lines 172-199.

\* np.arange(a, b, 1)
ARange(a, b) == [i \in 1..(b - a) |-> a + i - 1]

NotMissing(values, i) == ~RowHasNaN(values[i + 1])

\* events._utils._filters.filter_candidates_remove_nans
filter_candidates_remove_nans(candidates, values) ==
    [k \in 1..Len(candidates) |->
        SelectSeq(candidates[k], LAMBDA i : NotMissing(values, i))]

\* one candidate cut into its maximal runs of consecutive indices
RECURSIVE SplitRuns(_)
SplitRuns(c) ==
    IF Len(c) = 0 THEN <<>>
    ELSE IF Len(c) = 1 THEN <<c>>
    ELSE LET rest == SplitRuns(SubSeq(c, 1, Len(c) - 1))
             last == rest[Len(rest)]
             x == c[Len(c)]
         IN  IF x = last[Len(last)] + 1
             THEN [rest EXCEPT ![Len(rest)] = Append(last, x)]
             ELSE Append(rest, <<x>>)

RECURSIVE SplitAll(_)
SplitAll(candidates) ==
    IF Len(candidates) = 0 THEN <<>>
    ELSE SplitRuns(Head(candidates)) \o SplitAll(Tail(candidates))

\* events._utils._filters.events_split_nans
events_split_nans(candidates, values) == SplitAll(candidates)

\* a faulty variant: only empty candidates are dropped
FilterMinDuration_NonEmpty(candidates, m) == SelectSeq(candidates, LAMBDA c : Len(c) >= 1)

\* lines 187-190
FilterMinDuration(candidates, m) == SelectSeq(candidates, LAMBDA c : Len(c) >= m)

\* a faulty variant: the flag read the wrong way round
SplitWanted_Inverted(incl) == incl

\* line 180: the split is applied when include_nan is false
SplitWanted(incl) == ~incl

\* a faulty variant: the whole window is inspected
NanCheckRange_Whole(ws, we) == <<ws, we>>

\* line 173: the range inspected for missing values
NanCheckRange(ws, we) == <<ws, we - 1>>

\* lines 173-199: the <<first index, last index>> pairs appended for window [ws, we)
WindowEvents(pos, ws, we, incl, m) ==
    LET r == NanCheckRange(ws, we) IN
    IF AnyNaN(pos, r[1], r[2])
    THEN LET tmp0 == <<ARange(ws, we - 1)>>
             tmp1 == filter_candidates_remove_nans(tmp0, pos)
             tmp2 == IF SplitWanted(incl) THEN events_split_nans(tmp1, pos) ELSE tmp1
             tmp3 == FilterMinDuration(tmp2, m)
         IN  [k \in 1..Len(tmp3) |-> <<tmp3[k][1], tmp3[k][Len(tmp3[k])]>>]
    ELSE <<<<ws, we - 1>>>>

-----------------------------------------------------------------------------
\* The checked inputs.

Pts == { <<Num(0), Num(0)>>, <<Num(1), Num(0)>>, <<Num(2), Num(1)>>,
         <<NaN, NaN>>, <<NaN, Num(0)>> }

NanPts == { <<Num(0), Num(0)>>, <<NaN, NaN>> }

\* a complete sample and samples with x missing, y missing and both missing
ColPts == { <<Num(0), Num(0)>>, <<NaN, Num(0)>>, <<Num(0), NaN>>, <<NaN, NaN>> }

SeqsUpTo(S, n) == UNION {[1..k -> S] : k \in 1..n}

BadShapes == { [i \in 1..k |-> <<Num(0), Num(0), Num(0)>>] : k \in 1..2 }

\* start + i * step for i = 0..n-1, in half units
TsArith(n, start, step) == [i \in 1..n |-> 2 * (start + (i - 1) * step)]

Given(v) == [given |-> TRUE, vals |-> v]
NotGiven == [given |-> FALSE, vals |-> <<>>]

TsChoices(n) ==
    { NotGiven,
      Given(TsArith(n, 10, 2)),
      Given(TsArith(n, 5, 0)),
      Given(TsArith(n, 9, -2)),
      Given([i \in 1..n |-> 2 * (IF i <= 2 THEN i - 1 ELSE i)]),
      Given([i \in 1..n |-> 2 * (i - 1) + (IF i = n THEN 1 ELSE 0)]),
      Given(TsArith(n + 1, 0, 1)) }

IntArg(v) == [isint |-> TRUE, v |-> v]
FloatArg(v) == [isint |-> FALSE, v |-> v]

MinDurations == { IntArg(0), IntArg(2), IntArg(3), IntArg(4), FloatArg(2) }
Thresholds == {0, 1, 2}

-----------------------------------------------------------------------------
\* The state machine.

\* positions[win_start:win_end]
Window == Slice(positions, win_start, win_end)

InitLocals ==
    /\ timesteps = <<>>
    /\ minimum_sample_duration = 0
    /\ win_start = 0
    /\ win_end = 0
    /\ onsets = <<>>
    /\ offsets = <<>>
    /\ pc = "start"
    /\ error = "none"
    /\ errmsg = ""
    /\ windows = <<>>
    /\ iters = 0

Init ==
    /\ positions \in SeqsUpTo(Pts, MaxN) \cup BadShapes
    /\ tsArg \in TsChoices(Len(positions))
    /\ minimum_duration \in MinDurations
    /\ dispersion_threshold \in Thresholds
    /\ include_nan \in BOOLEAN
    /\ InitLocals

\* lines 107-152
Validate ==
    /\ pc = "start"
    /\ LET f == ValidationFailure(positions, tsArg, minimum_duration, dispersion_threshold)
           ts == IntTimesteps(positions, tsArg)
       IN  IF f.kind # "none"
           THEN /\ pc' = "error"
                /\ error' = f.kind
                /\ errmsg' = f.msg
                /\ UNCHANGED <<timesteps, minimum_sample_duration, win_start, win_end>>
           ELSE /\ pc' = "loop"
                /\ timesteps' = ts
                /\ minimum_sample_duration' = SampleDuration(minimum_duration.v, Diff(ts))
                /\ win_start' = 0
                /\ win_end' = minimum_sample_duration'
                /\ UNCHANGED <<error, errmsg>>
    /\ UNCHANGED <<args, iters, onsets, offsets, windows>>

\* line 154
LoopCondition == win_start < Len(timesteps) /\ win_end <= Len(timesteps)

\* a faulty variant: the minimum duration is added to the old window end
Clamp_FromEnd(ws, we, m, n) == Min2(we + m, n)

\* a faulty variant: the ceiling len(timesteps) is left out
Clamp_NoCeiling(ws, we, m, n) == Max2(ws + m, we)

\* lines 158-159
Clamp(ws, we, m, n) == Min2(Max2(ws + m, we), n)

\* lines 154-161: the loop test, the re-clamp and the tail break
LoopHead ==
    /\ pc = "loop"
    /\ IF LoopCondition
       THEN LET we == Clamp(win_start, win_end, minimum_sample_duration, Len(timesteps))
            IN  /\ win_end' = we
                /\ pc' = IF we - win_start < minimum_sample_duration THEN "done" ELSE "test"
                /\ iters' = iters + 1
       ELSE /\ pc' = "done"
            /\ UNCHANGED <<win_end, iters>>
    /\ UNCHANGED <<args, timesteps, minimum_sample_duration, win_start, onsets, offsets,
                   error, errmsg, windows>>

\* a faulty variant: the initial test strict, like the growth test
InitialTest_Strict == FLt(dispersion(Window), dispersion_threshold)

\* line 163
InitialTest == FLe(dispersion(Window), dispersion_threshold)

\* a faulty variant: the break one sample before the end of the data
GrowthTest_StopEarly ==
    FLt(dispersion(Window), dispersion_threshold) /\ win_end + 1 < Len(timesteps)

\* line 165, with the break of lines 167-168
GrowthTest == FLt(dispersion(Window), dispersion_threshold) /\ win_end # Len(timesteps)

\* line 163, true branch
EnterGrow ==
    /\ pc = "test"
    /\ InitialTest
    /\ pc' = "grow"
    /\ UNCHANGED <<args, iters, timesteps, minimum_sample_duration, win_start, win_end,
                   onsets, offsets, error, errmsg, windows>>

\* a faulty variant: the slide skips a sample
AfterSlide_Skip(ws) == ws + 2

\* line 207: win_start += 1
AfterSlide(ws) == ws + 1

\* lines 204-207
Slide ==
    /\ pc = "test"
    /\ ~InitialTest
    /\ win_start' = AfterSlide(win_start)
    /\ pc' = "loop"
    /\ UNCHANGED <<args, iters, timesteps, minimum_sample_duration, win_end,
                   onsets, offsets, error, errmsg, windows>>

\* lines 165-170
Grow ==
    /\ pc = "grow"
    /\ GrowthTest
    /\ win_end' = win_end + 1
    /\ UNCHANGED <<args, iters, timesteps, minimum_sample_duration, win_start,
                   onsets, offsets, pc, error, errmsg, windows, iters>>

\* a faulty variant: the window start advances by one sample, as in the slide
AfterConsume_Step(ws, we) == ws + 1

\* a faulty variant: the window start is left where it was
AfterConsume_Stay(ws, we) == ws

\* line 203: win_start = win_end
AfterConsume(ws, we) == we

\* lines 172-203
Consume ==
    /\ pc = "grow"
    /\ ~GrowthTest
    /\ LET ev == WindowEvents(positions, win_start, win_end, include_nan,
                              minimum_sample_duration)
       IN  /\ onsets' = onsets \o [k \in 1..Len(ev) |-> timesteps[ev[k][1] + 1]]
           /\ offsets' = offsets \o [k \in 1..Len(ev) |-> timesteps[ev[k][2] + 1]]
           /\ windows' = Append(windows, [start |-> win_start, end |-> win_end, events |-> ev])
    /\ win_start' = AfterConsume(win_start, win_end)
    /\ pc' = "loop"
    /\ UNCHANGED <<args, iters, timesteps, minimum_sample_duration, win_end, error, errmsg>>

Next == Validate \/ LoopHead \/ EnterGrow \/ Slide \/ Grow \/ Consume

Spec == Init /\ [][Next]_vars

\* The same machine on longer series of identical and missing samples.
InitNan ==
    /\ positions \in SeqsUpTo(NanPts, MaxNanN)
    /\ tsArg \in TsChoices(Len(positions))
    /\ minimum_duration \in MinDurations
    /\ dispersion_threshold \in Thresholds
    /\ include_nan \in BOOLEAN
    /\ InitLocals

SpecNan == InitNan /\ [][Next]_vars

\* idt runs to completion once called: a sequential routine that is never
\* suspended takes its next step whenever it has one.
\* Its inputs: every position series, default or supplied uniform timesteps,
\* a positive threshold and a positive integer minimum_duration.
InitFair ==
    /\ positions \in SeqsUpTo(Pts, MaxFairN)
    /\ tsArg \in {NotGiven, Given(TsArith(Len(positions), 10, 2))}
    /\ minimum_duration \in {IntArg(2), IntArg(3), IntArg(4)}
    /\ dispersion_threshold \in {1, 2}
    /\ include_nan \in BOOLEAN
    /\ InitLocals

FairSpec == InitFair /\ [][Next]_vars /\ WF_vars(Next)

\* The routine run to completion on longer series whose samples miss the x
\* coordinate, the y coordinate or both, with sample-based timesteps.
\* include_nan is set: the flag is read only at line 180, once the window is
\* chosen, and decides none of the dispersion tests nor where a window
\* starts or ends.
InitColumn ==
    /\ positions \in SeqsUpTo(ColPts, MaxColN)
    /\ tsArg = NotGiven
    /\ minimum_duration \in {IntArg(2), IntArg(3)}
    /\ dispersion_threshold = 1
    /\ include_nan = TRUE
    /\ InitLocals

FairColumnSpec == InitColumn /\ [][Next]_vars /\ WF_vars(Next)

-----------------------------------------------------------------------------
\* Vocabulary of the properties.

Scanning == pc \in {"loop", "test", "grow", "done"}
Finished == pc \in {"done", "error"}

\* the constant interval of the accepted timesteps, and the index of a timestamp
Interval == timesteps[2] - timesteps[1]
IndexOf(t) == (t - timesteps[1]) \div Interval

NoMissing == \A i \in 1..Len(positions) : ~RowHasNaN(positions[i])
Abs(x) == IF x >= 0 THEN x ELSE -x

GivenInts == IntTimesteps(positions, tsArg)
NonUniform(ts) ==
    \E i, j \in 1..(Len(ts) - 1) : ts[i + 1] - ts[i] # ts[j + 1] - ts[j]

\* everything checked before the interval checks of lines 140-148 is in order
EarlyChecksPass ==
    /\ check_shapes(positions)
    /\ ~AnyFraction(RawTimesteps(positions, tsArg))
    /\ Len(GivenInts) = Len(positions)
    /\ dispersion_threshold > 0
    /\ minimum_duration.isint
    /\ minimum_duration.v > 0

RECURSIVE EventsOf(_)
EventsOf(ws) == IF Len(ws) = 0 THEN <<>> ELSE Head(ws).events \o EventsOf(Tail(ws))

-----------------------------------------------------------------------------
\* C1: once the scan is entered (the input was valid: positive uniform
\* interval, minimum_sample_duration >= 2), every emitted event has
\* offset >= onset and spans at least minimum_sample_duration samples,
\* (offset - onset) / interval + 1 >= minimum_sample_duration.
C1_EventsSpanMinimumDuration ==
    Scanning =>
        /\ Interval > 0
        /\ minimum_sample_duration >= 2
        /\ Len(onsets) = Len(offsets)
        /\ \A k \in 1..Len(onsets) :
              /\ offsets[k] >= onsets[k]
              /\ (offsets[k] - onsets[k]) % Interval = 0
              /\ (offsets[k] - onsets[k]) \div Interval + 1 >= minimum_sample_duration

\* a finished run on supplied timesteps that emitted an event from a window
\* with missing samples, split at the gaps
C1_Witness ==
    /\ pc = "done"
    /\ ~include_nan
    /\ tsArg.given
    /\ \E i \in 1..Len(windows) :
          /\ AnyNaN(positions, windows[i].start, windows[i].end - 1)
          /\ Len(windows[i].events) >= 1

\* C2: onsets are non-decreasing in emission order, each event starts
\* strictly after the previous event's last sample, consumed windows are
\* pairwise disjoint and hold their events, and win_start never falls back
\* into a consumed window.
C2_WindowsNeverOverlap ==
    Scanning =>
        /\ \A k \in 1..(Len(onsets) - 1) :
              /\ onsets[k] <= onsets[k + 1]
              /\ IndexOf(onsets[k + 1]) > IndexOf(offsets[k])
        /\ \A i, j \in 1..Len(windows) : i < j => windows[i].end <= windows[j].start
        /\ \A i \in 1..Len(windows) :
              /\ windows[i].start < windows[i].end
              /\ \A k \in 1..Len(windows[i].events) :
                    /\ windows[i].start <= windows[i].events[k][1]
                    /\ windows[i].events[k][2] < windows[i].end
        /\ windows # <<>> => win_start >= windows[Len(windows)].end
        /\ onsets = [k \in 1..Len(EventsOf(windows)) |-> timesteps[EventsOf(windows)[k][1] + 1]]
        /\ offsets = [k \in 1..Len(EventsOf(windows)) |-> timesteps[EventsOf(windows)[k][2] + 1]]

\* a finished run with two consumed windows, both of which emitted
C2_Witness ==
    /\ pc = "done"
    /\ Len(windows) >= 2
    /\ \A i \in 1..Len(windows) : Len(windows[i].events) >= 1

\* C3 (as claimed): with include_nan = False no sample from an event's onset
\* index to its offset index, inclusive, is missing.
C3_NoMissingInsideEvent ==
    (pc = "done" /\ ~include_nan) =>
        \A k \in 1..Len(onsets) :
            ~AnyNaN(positions, IndexOf(onsets[k]), IndexOf(offsets[k]) + 1)

\* C4 (as claimed): on input without missing values the dispersion over the
\* samples from an event's onset index to its offset index, inclusive, is
\* at most dispersion_threshold.
C4_EventDispersionWithinThreshold ==
    (pc = "done" /\ NoMissing) =>
        \A k \in 1..Len(onsets) :
            FLe(dispersion(Slice(positions, IndexOf(onsets[k]), IndexOf(offsets[k]) + 1)),
                dispersion_threshold)

\* C5 (as claimed): positions [(0,0),(0,0),(NaN,NaN),(0,0),(0,0)], default
\* timesteps, threshold 1, minimum_duration 2, include_nan = False give
\* exactly the two fixations 0..1 and 3..4.
C5_TwoFixationsAroundGap ==
    ( /\ Finished
      /\ positions = << <<Num(0), Num(0)>>, <<Num(0), Num(0)>>, <<NaN, NaN>>,
                        <<Num(0), Num(0)>>, <<Num(0), Num(0)>> >>
      /\ ~tsArg.given
      /\ dispersion_threshold = 1
      /\ minimum_duration = IntArg(2)
      /\ ~include_nan )
    => (pc = "done" /\ onsets = <<0, 3>> /\ offsets = <<1, 4>>)

\* the interval the boundary claim counts samples in: that of the supplied
\* timesteps, or 1 for the default sample-index timesteps
NominalInterval == IF tsArg.given THEN GivenInts[2] - GivenInts[1] ELSE 1
BoundaryCase ==
    /\ EarlyChecksPass
    /\ NoMissing
    /\ tsArg.given => (Len(positions) >= 2 /\ ~NonUniform(GivenInts))
    /\ NominalInterval > 0
    /\ minimum_duration.v % NominalInterval = 0
    /\ minimum_duration.v \div NominalInterval >= 2

\* C6 (as claimed): a series of exactly minimum_sample_duration samples
\* with dispersion <= threshold yields one event from the first to the last
\* timestamp; a series one sample shorter yields no event and no error.
C6_BoundaryLengths ==
    (Finished /\ BoundaryCase) =>
        LET m == minimum_duration.v \div NominalInterval
            n == Len(positions)
        IN  /\ (n = m /\ FLe(dispersion(positions), dispersion_threshold)) =>
                  /\ pc = "done"
                  /\ onsets = <<GivenInts[1]>>
                  /\ offsets = <<GivenInts[n]>>
            /\ (n = m - 1) =>
                  /\ pc = "done"
                  /\ onsets = <<>>
                  /\ offsets = <<>>

\* C7 (as claimed): a run fails only as TypeError, ValueError, ShapeError or
\* LengthMismatchError, and only before the scan, with nothing accumulated.
C7_OnlyFourFailureKinds ==
    /\ error \in {"none", "TypeError", "ValueError", "ShapeError", "LengthMismatchError"}
    /\ pc = "error" => (onsets = <<>> /\ offsets = <<>> /\ windows = <<>> /\ win_end = 0)
    /\ Scanning => error = "none"

\* C8: integral, length-matched timesteps whose consecutive differences are
\* not all equal fail with the uniform-interval ValueError, whatever the
\* positions are (threshold positive, minimum_duration a positive integer),
\* and nothing is emitted.
C8_NonUniformTimestepsRejected ==
    (pc # "start" /\ EarlyChecksPass /\ NonUniform(GivenInts)) =>
        /\ pc = "error"
        /\ error = "ValueError"
        /\ errmsg = "interval between timesteps must be constant"
        /\ onsets = <<>>
        /\ offsets = <<>>

\* timesteps 0, 1, 3, 4 over positions with a missing sample, rejected
C8_Witness ==
    /\ pc = "error"
    /\ EarlyChecksPass
    /\ GivenInts = <<0, 1, 3, 4>>
    /\ ~NoMissing

\* C9: with uniform timesteps of interval d the scan is entered exactly when
\* d > 0, minimum_duration is divisible by d and the quotient is >= 2 (and
\* then minimum_sample_duration is that quotient); otherwise idt fails with
\* a ValueError and emits nothing: the divisibility error when
\* minimum_duration mod d # 0, the two-samples error when the quotient is
\* below 2.
C9_DivisibilityAndTwoSamples ==
    /\ Scanning => (EarlyChecksPass /\ Len(positions) >= 2 /\ ~NonUniform(GivenInts))
    /\ (pc # "start" /\ EarlyChecksPass /\ Len(positions) >= 2 /\ ~NonUniform(GivenInts)) =>
          LET d == GivenInts[2] - GivenInts[1]
              md == minimum_duration.v
          IN  IF d > 0 /\ md % d = 0 /\ md \div d >= 2
              THEN /\ Scanning
                   /\ minimum_sample_duration = md \div d
              ELSE /\ pc = "error"
                   /\ error = "ValueError"
                   /\ onsets = <<>>
                   /\ offsets = <<>>
                   /\ (d # 0 /\ md % Abs(d) # 0) =>
                         errmsg = "minimum_duration must be divisible"
                   /\ (d # 0 /\ md % Abs(d) = 0) =>
                         errmsg = "minimum_duration must be longer than 2 samples"

\* interval 2 with minimum_duration 3: the divisibility error
C9_Witness ==
    /\ pc = "error"
    /\ errmsg = "minimum_duration must be divisible"
    /\ tsArg.given
    /\ GivenInts[2] - GivenInts[1] = 2
    /\ minimum_duration.v = 3

\* C10: with include_nan = True a consumed window whose range
\* [win_start, win_end - 1) holds missing samples appends at most one event;
\* it appends one exactly when the range has at least
\* minimum_sample_duration non-missing indices, and that event runs from
\* the first to the last non-missing index of the range, unsplit.
C10_IncludeNanOneSpanningEvent ==
    (Scanning /\ include_nan) =>
        \A i \in 1..Len(windows) :
            LET w == windows[i]
                present == {j \in w.start..(w.end - 2) : ~RowHasNaN(positions[j + 1])}
            IN  AnyNaN(positions, w.start, w.end - 1) =>
                    /\ Len(w.events) <= 1
                    /\ Len(w.events) = 1 <=> Cardinality(present) >= minimum_sample_duration
                    /\ Len(w.events) = 1 =>
                          w.events[1] = <<SetMin(present), SetMax(present)>>

\* an event emitted across a missing sample
C10_Witness ==
    /\ pc = "done"
    /\ include_nan
    /\ \E i \in 1..Len(windows) :
          /\ Len(windows[i].events) = 1
          /\ \E j \in (windows[i].events[1][1] + 1)..(windows[i].events[1][2] - 1) :
                RowHasNaN(positions[j + 1])

-----------------------------------------------------------------------------
\* C11: every run ends (returns or raises); the body of the scan loop is
\* entered at most 2N times; once it was entered win_end never exceeds N;
\* the slide ends an iteration with win_start one larger, the consume
\* branch with win_start at the window end, which lies beyond win_start.
C11_ScanTerminates ==
    /\ <>Finished
    /\ [](iters <= 2 * Len(positions))
    /\ [](iters >= 1 => win_end <= Len(positions))
    /\ [][(pc = "test" /\ pc' = "loop") => win_start' = win_start + 1]_vars
    /\ [][(pc = "grow" /\ pc' = "loop") =>
              (win_start' = win_end /\ win_end > win_start)]_vars

\* a finished scan over a series with missing samples that slid first and
\* then consumed a window
C11_Witness ==
    /\ pc = "done"
    /\ iters >= 2
    /\ Len(windows) >= 1
    /\ windows[1].start >= 1
    /\ ~NoMissing

-----------------------------------------------------------------------------
\* the minimum-size window that starts at index ws
MinWindowAt(ws) == Slice(positions, ws, ws + minimum_sample_duration)

\* C13: a minimum-size window whose dispersion equals the threshold is
\* accepted by the initial test and is not grown; without missing samples
\* it is consumed as one event of exactly minimum_sample_duration samples.
\* A growth step happens only from a window whose dispersion is strictly
\* below the threshold and whose end is before the end of the data.
C13_AcceptAtThresholdWithoutGrowth ==
    /\ [][(pc = "test" /\ dispersion(Window) = Num(dispersion_threshold)) =>
              (pc' = "grow" /\ win_start' = win_start /\ win_end' = win_end)]_vars
    /\ [][(pc = "grow" /\ dispersion(Window) = Num(dispersion_threshold)) =>
              win_end' = win_end]_vars
    /\ [][(pc = "grow" /\ win_end' # win_end) =>
              /\ win_end' = win_end + 1
              /\ ~IsNaN(dispersion(Window))
              /\ Val(dispersion(Window)) < dispersion_threshold
              /\ win_end < Len(positions)]_vars
    /\ [](\A i \in 1..Len(windows) :
              (/\ NoMissing
               /\ dispersion(MinWindowAt(windows[i].start)) = Num(dispersion_threshold))
              => /\ windows[i].end = windows[i].start + minimum_sample_duration
                 /\ windows[i].events = <<<<windows[i].start, windows[i].end - 1>>>>)

\* a window at exactly the threshold, consumed at minimum size although
\* more samples followed
C13_Witness ==
    /\ pc = "done"
    /\ NoMissing
    /\ \E i \in 1..Len(windows) :
          /\ dispersion(MinWindowAt(windows[i].start)) = Num(dispersion_threshold)
          /\ windows[i].end = windows[i].start + minimum_sample_duration
          /\ windows[i].end < Len(positions)
          /\ Len(windows[i].events) = 1

\* C14: when growth has stopped the window is consumed in the next step;
\* if no sample of [win_start, win_end - 1) is missing that step appends
\* exactly one pair, onset timesteps[win_start] and offset
\* timesteps[win_end - 1], and sets win_start to win_end, whether growth
\* stopped at the end of the data or on the threshold.
C14_ConsumeAppendsOnePair ==
    /\ [][(/\ pc = "grow"
           /\ ~(/\ ~IsNaN(dispersion(Window))
                /\ Val(dispersion(Window)) < dispersion_threshold
                /\ win_end < Len(positions)))
          => pc' = "loop"]_vars
    /\ [][(/\ pc = "grow"
           /\ pc' = "loop"
           /\ \A j \in win_start..(win_end - 2) : ~RowHasNaN(positions[j + 1]))
          => /\ onsets' = Append(onsets, timesteps[win_start + 1])
             /\ offsets' = Append(offsets, timesteps[win_end])
             /\ win_start' = win_end
             /\ win_end' = win_end]_vars

\* a run that consumed one window stopped by the threshold and a later one
\* stopped by the end of the data, each appending its pair
C14_Witness ==
    /\ pc = "done"
    /\ NoMissing
    /\ Len(onsets) = 2
    /\ Len(windows) = 2
    /\ windows[1].end < Len(positions)
    /\ windows[2].end = Len(positions)
    /\ FLt(dispersion(Slice(positions, windows[2].start, windows[2].end)),
           dispersion_threshold)

\* C15: a minimum-size window whose dispersion is not within the threshold
\* is slid: win_start grows by exactly 1, and win_end, onsets and offsets
\* stay as they are.
C15_SlideFrame ==
    /\ [][(pc = "test" /\ ~IsNaN(dispersion(Window))
           /\ Val(dispersion(Window)) > dispersion_threshold) => pc' = "loop"]_vars
    /\ [][(pc = "test" /\ pc' = "loop") =>
              /\ win_start' = win_start + 1
              /\ win_end' = win_end
              /\ onsets' = onsets
              /\ offsets' = offsets]_vars

\* a slide taken after an event was already accumulated
C15_Witness ==
    /\ pc = "loop"
    /\ Len(onsets) >= 1
    /\ win_start > windows[Len(windows)].end

\* C16: inside an iteration win_start < N and win_end <= N, also after the
\* re-clamp; when fewer than minimum_sample_duration samples remain from
\* win_start the scan ends at the loop head without error and without
\* touching the accumulators, and nothing happens after the end.
C16_LoopBoundsAndSilentTail ==
    /\ []((pc \in {"test", "grow"}) =>
              /\ win_start < Len(positions)
              /\ win_end <= Len(positions)
              /\ win_end - win_start >= minimum_sample_duration)
    /\ []((pc = "loop" /\ iters >= 1) => win_end <= Len(positions))
    /\ [][(/\ pc = "loop"
           /\ win_start < Len(positions)
           /\ win_end <= Len(positions)
           /\ Len(positions) - win_start < minimum_sample_duration)
          => /\ pc' = "done"
             /\ error' = "none"
             /\ win_end' <= Len(positions)
             /\ onsets' = onsets
             /\ offsets' = offsets]_vars
    /\ [](pc = "done" => (error = "none" /\ ~ENABLED Next))

\* a scan ended by the tail break with an event already accumulated
C16_Witness ==
    /\ pc = "done"
    /\ Len(onsets) >= 1
    /\ win_start < Len(positions)
    /\ Len(positions) - win_start < minimum_sample_duration

-----------------------------------------------------------------------------
\* some coordinate column of the block holds no number
ColumnMissing(block) ==
    \E col \in 1..2 : \A i \in 1..Len(block) : IsNaN(block[i][col])

\* every sample of the block is missing: it has a NaN coordinate, which is
\* what line 173 counts as missing
AllMissing(block) == \A i \in 1..Len(block) : RowHasNaN(block[i])

\* every sample of the block has both coordinates missing
WhollyMissing(block) ==
    \A i \in 1..Len(block) : \A col \in 1..2 : IsNaN(block[i][col])

\* C17 as stated: no event is emitted by a window that started where all
\* minimum_sample_duration samples are missing.
C17_NoEventFromAllMissingStart ==
    \A i \in 1..Len(windows) :
        windows[i].events # <<>> => ~AllMissing(MinWindowAt(windows[i].start))

\* C17, amended: a minimum-size window with an entirely missing coordinate
\* column has a NaN dispersion and is slid, never accepted; no window is
\* consumed, and so no event emitted, from a start where a coordinate column
\* of the minimum_sample_duration samples is entirely missing, in particular
\* where every sample has both coordinates missing; and the scan still
\* comes to its end from such a window.
C17_MissingColumnSlides ==
    /\ []((pc = "test" /\ ColumnMissing(Window)) => IsNaN(dispersion(Window)))
    /\ [][(pc = "test" /\ ColumnMissing(Window)) =>
              /\ pc' = "loop"
              /\ win_start' = win_start + 1
              /\ onsets' = onsets
              /\ offsets' = offsets]_vars
    /\ [](\A i \in 1..Len(windows) :
              /\ ~ColumnMissing(MinWindowAt(windows[i].start))
              /\ ~WhollyMissing(MinWindowAt(windows[i].start)))
    /\ ((pc = "test" /\ ColumnMissing(Window)) ~> pc = "done")

\* the initial test on a window whose x column is missing while a y value
\* is present, reached by sliding off a start where every sample misses a
\* coordinate
C17_Witness ==
    /\ pc = "test"
    /\ win_start >= 1
    /\ ColumnMissing(Window)
    /\ \E i \in 1..Len(Window) : ~IsNaN(Window[i][2])
    /\ AllMissing(MinWindowAt(0))

\* C18: whenever the initial dispersion test is evaluated the window holds
\* exactly minimum_sample_duration samples; at the loop head it holds at
\* most that many, and a longer window exists only in the growth phase.
C18_InitialTestOnMinimumWindow ==
    /\ pc = "test" => win_end - win_start = minimum_sample_duration
    /\ (pc = "loop" /\ iters >= 1) => win_end - win_start < minimum_sample_duration
    /\ (pc = "loop" /\ iters = 0) => (win_start = 0 /\ win_end = minimum_sample_duration)
    /\ pc = "grow" => win_end - win_start >= minimum_sample_duration

\* the initial test evaluated after a window was consumed
C18_Witness ==
    /\ pc = "test"
    /\ Len(windows) >= 1
    /\ iters >= 2

\* the initial test evaluated after a slide
C18_WitnessSlide ==
    /\ pc = "test"
    /\ windows = <<>>
    /\ win_start >= 1

\* C19: onsets and offsets always have the same length, and a finished run
\* on N samples holds at most floor(N / minimum_sample_duration) events.
C19_EqualLengthsAndEventCount ==
    /\ Len(onsets) = Len(offsets)
    /\ pc = "done" =>
          Len(onsets) <= Len(positions) \div minimum_sample_duration

\* a run that emitted as many events as the series has room for
C19_Witness ==
    /\ pc = "done"
    /\ Len(onsets) = 2
    /\ Len(offsets) = 2
    /\ Len(positions) \div minimum_sample_duration = 2

\* C20: a series of N >= minimum_sample_duration samples without missing
\* values whose dispersion is strictly below the threshold is consumed as
\* one window that reaches the end of the data, and gives exactly one
\* event, from timesteps[0] to timesteps[N - 1].
C20_WholeSeriesOneEvent ==
    (/\ pc = "done"
     /\ NoMissing
     /\ Len(positions) >= minimum_sample_duration
     /\ ~IsNaN(dispersion(positions))
     /\ Val(dispersion(positions)) < dispersion_threshold)
    => /\ onsets = <<timesteps[1]>>
       /\ offsets = <<timesteps[Len(positions)]>>
       /\ Len(windows) = 1
       /\ windows[1].start = 0
       /\ windows[1].end = Len(positions)

\* four spread samples on supplied timesteps, grown from two to the end
C20_Witness ==
    /\ pc = "done"
    /\ NoMissing
    /\ Len(positions) = 4
    /\ minimum_sample_duration = 2
    /\ tsArg.given
    /\ dispersion(positions) = Num(1)
    /\ dispersion_threshold = 2
    /\ Len(onsets) = 1

====
